---- MODULE Spec2Model ----
(***************************************************************************)
(* KPI dashboard backend: access-control decision engine, session          *)
(* resolver and the audited write pipeline of the marketing sector.        *)
(*                                                                         *)
(* Strings whose letter case matters (sector names) are sequences of       *)
(* one-character strings; an Optional[str] is a sequence of length <= 1    *)
(* holding the value (<<>> is Python's None).                              *)
(***************************************************************************)
EXTENDS Integers, Sequences, FiniteSets, TLC

VARIABLES
    users,           \* table "users": id -> row
    now,             \* wall clock (datetime.now), in token-lifetime units
    marketing_data,  \* table "marketing_data": id -> row
    next_id,         \* next primary key of marketing_data (autoincrement)
    audit_log,       \* table "audit_log", in insertion order
    queue,           \* Redis list bull:kpi-processing:wait
    pc,              \* per request worker: position inside its handler
    req,             \* per request worker: the handler's local variables
    resp,            \* the last HTTP response sent
    check,           \* access-decision call: principal, function, argument, outcome
    active_connections,  \* ConnectionManager.active_connections (a list)
    websockets,      \* per WebSocket: "new", "open", "closed" (the peer went
                     \* away: send and receive raise) or "done" (endpoint ended)
    frames           \* per running broadcast(): its local variables

wsvars == <<active_connections, websockets, frames>>
vars == <<users, now, marketing_data, next_id, audit_log, queue, pc, req, resp, check, wsvars>>

(***************************** bounds **************************************)
MaxTime    == 2      \* the clock runs 0..MaxTime
MaxId      == 2      \* at most MaxId marketing rows are ever inserted
MaxUpdates == 1      \* at most MaxUpdates updates are applied to the stored rows
MaxDeletes == 1      \* at most MaxDeletes deletes are audited
NumWorkers == 2      \* concurrent request workers
MaxOps     == 3      \* at most MaxOps writes (create, update, delete) are started
MaxSockets == 3      \* WebSocket clients that ever connect
NumBroadcasts == 2   \* calls of broadcast() that are ever made

(***************************** WebSocket state *****************************)
Sockets    == 1..MaxSockets
Broadcasts == 1..NumBroadcasts

\* the locals of one broadcast(): position, the list iterator's index, the
\* list "disconnected"; beside them what the call did: the connections
\* send_text returned for (sent), and the connections registered when the
\* call began that no disconnect has removed since (whole)
NoFrame == [pc |-> "idle", index |-> 0, disconnected |-> <<>>, sent |-> <<>>,
            whole |-> {}]

\* manager = ConnectionManager(): no connection; no broadcast running
WsInit ==
    /\ active_connections = <<>>
    /\ websockets = [c \in Sockets |-> "new"]
    /\ frames = [b \in Broadcasts |-> NoFrame]

(***************************** strings *************************************)
UpperCase == <<"A","B","C","D","E","F","G","H","I","J","K","L","M",
               "N","O","P","Q","R","S","T","U","V","W","X","Y","Z">>
LowerCase == <<"a","b","c","d","e","f","g","h","i","j","k","l","m",
               "n","o","p","q","r","s","t","u","v","w","x","y","z">>

\* str.lower() on one character: an upper-case letter maps to its lower-case
\* letter, any other character to itself
LowerOf == [c \in {UpperCase[i] : i \in 1..26} |->
               LowerCase[CHOOSE i \in 1..26 : UpperCase[i] = c]]
LowerChar(c) == IF c \in DOMAIN LowerOf THEN LowerOf[c] ELSE c

\* str.lower()
Lower(s) == [i \in 1..Len(s) |-> LowerChar(s[i])]

None    == <<>>
Some(v) == <<v>>
IsNone(o) == o = <<>>
Val(o)  == o[1]

S_Marketing == <<"M","a","r","k","e","t","i","n","g">>
S_marketing == <<"m","a","r","k","e","t","i","n","g">>
S_MARKETING == <<"M","A","R","K","E","T","I","N","G">>
S_Comercial == <<"C","o","m","e","r","c","i","a","l">>
S_RH        == <<"R","H">>
S_rh        == <<"r","h">>
S_Empty     == <<>>

\* sector names the program passes: to the sector gate, and in check-permissions
GateSetores == {S_Marketing, S_Comercial, S_RH, S_marketing, S_rh}
\* values of the column users.setor (String(50), nullable)
UserSetores == {None, Some(S_Empty), Some(S_Marketing), Some(S_marketing),
                Some(S_MARKETING), Some(S_RH), Some(S_rh)}

(****************************** roles **************************************)
FUNCIONARIO == "Funcionario"
GESTOR      == "Gestor"
DIRETOR     == "Diretor"
RoleEnum    == {FUNCIONARIO, GESTOR, DIRETOR}
\* values of the column users.role (String(20)): the three roles and others
StoredRoles == RoleEnum \cup {"Admin"}

\* RoleEnum(value) raises ValueError unless value is one of the members
IsRoleEnum(r) == r \in RoleEnum

role_hierarchy == [r \in RoleEnum |->
    CASE r = FUNCIONARIO -> 1 [] r = GESTOR -> 2 [] r = DIRETOR -> 3]

\* require_role(required_role)(current_user): the HTTP status of the dependency
\* (200 = the dependency returns current_user)
require_role(user, required_role) ==
    IF ~IsRoleEnum(user.role) THEN 403
    ELSE LET user_level     == role_hierarchy[user.role]
             required_level == role_hierarchy[required_role]
         IN IF user_level < required_level THEN 403 ELSE 200

\* AuthService.check_permission(user, required_role): "True", "False" or the
\* exception that escapes
check_permission(user, required_role) ==
    IF ~IsRoleEnum(user.role) THEN "ValueError"
    ELSE IF user.role = DIRETOR THEN "True"
    ELSE IF user.role = GESTOR /\ required_role \in {GESTOR, FUNCIONARIO} THEN "True"
    ELSE IF user.role = FUNCIONARIO /\ required_role = FUNCIONARIO THEN "True"
    ELSE "False"

\* truthiness of an Optional[str]
Truthy(o) == ~IsNone(o) /\ Len(Val(o)) > 0

\* auth.can_access_setor(user, setor), as the truth value its callers test
\* (variant: a Gestor is confined to the own sector, as a Funcionario is)
can_access_setor_own(user, setor) ==
    IF ~IsRoleEnum(user.role) THEN FALSE
    ELSE IF user.role = DIRETOR THEN TRUE
    ELSE Truthy(user.setor) /\ Lower(Val(user.setor)) = Lower(setor)
\* (variant: the sector comparison is case-sensitive)
can_access_setor_exact(user, setor) ==
    IF ~IsRoleEnum(user.role) THEN FALSE
    ELSE IF user.role = DIRETOR THEN TRUE
    ELSE IF user.role = GESTOR THEN TRUE
    ELSE Truthy(user.setor) /\ Val(user.setor) = setor
can_access_setor(user, setor) ==
    IF ~IsRoleEnum(user.role) THEN FALSE
    ELSE IF user.role = DIRETOR THEN TRUE
    ELSE IF user.role = GESTOR THEN TRUE
    ELSE IF user.role = FUNCIONARIO
         THEN Truthy(user.setor) /\ Lower(Val(user.setor)) = Lower(setor)
    ELSE FALSE

\* AuthService.can_access_setor(user, setor): "True", "False" or the
\* exception that escapes (UserRole(user.role) for an unknown role,
\* user.setor.lower() for a user without sector)
AuthService_can_access_setor(user, setor) ==
    IF ~IsRoleEnum(user.role) THEN "ValueError"
    ELSE IF user.role = DIRETOR THEN "True"
    ELSE IF IsNone(user.setor) THEN "AttributeError"
    ELSE IF Lower(Val(user.setor)) = Lower(setor) THEN "True"
    ELSE "False"

\* SetorAccessChecker(setor).__call__(current_user): HTTP status
SetorAccessChecker(setor, current_user) ==
    IF ~can_access_setor(current_user, setor) THEN 403 ELSE 200

require_marketing_access(current_user) == SetorAccessChecker(S_Marketing, current_user)

(************************ session tokens ***********************************)
SECRET_KEY == "SECRET_KEY"
Emails     == {"dir@x", "ges@x", "mkt@x", "rh@x", "adm@x", "off@x"}

\* a bearer token as presented: a JWT that parses or not, the key it was
\* signed with, its "exp" claim and its optional "sub" claim
Tokens == [wellformed : BOOLEAN,
           key        : {SECRET_KEY, "other-key"},
           exp        : 0..MaxTime,
           sub        : {None} \cup {Some(e) : e \in Emails \cup {"ghost@x"}}]

\* a token that does not parse
NoToken == [wellformed |-> FALSE, key |-> "other-key", exp |-> 0, sub |-> None]

\* the clock advances in steps of TickMinutes; a timedelta is a number of
\* minutes
TickMinutes == 30
ACCESS_TOKEN_EXPIRE_MINUTES == 30

\* create_access_token(data, expires_delta) at time t: "if expires_delta:" is
\* false of None and of a zero timedelta; "exp" is set after the copy of data
create_access_token(data, expires_delta, t) ==
    LET expire == IF ~IsNone(expires_delta) /\ Val(expires_delta) # 0
                  THEN t + (Val(expires_delta) \div TickMinutes)
                  ELSE t + (ACCESS_TOKEN_EXPIRE_MINUTES \div TickMinutes)
    IN [wellformed |-> TRUE, key |-> SECRET_KEY, exp |-> expire, sub |-> data.sub]

\* jwt.decode(token, settings.SECRET_KEY, algorithms=[ALGORITHM]) raises a
\* JWTError for a malformed token, a bad signature and an expired token
\* (expired: the current time is past "exp")
JwtDecodeOk(token, t) ==
    /\ token.wellformed
    /\ token.key = SECRET_KEY
    /\ ~(t > token.exp)

\* verify_token(token): the payload (here the token's claims), or None
\* (variant: the "exp" claim is not verified)
verify_token_noexp(token, t) ==
    IF ~(token.wellformed /\ token.key = SECRET_KEY) THEN None
    ELSE IF IsNone(token.sub) THEN None
    ELSE Some(token)
verify_token(token, t) ==
    IF ~JwtDecodeOk(token, t) THEN None
    ELSE IF IsNone(token.sub) THEN None
    ELSE Some(token)

\* get_user_by_email(db, email): ids of the rows with that email
\* (users.email is UNIQUE, so at most one)
get_user_by_email(email) ==
    LET ids == {i \in DOMAIN users : users[i].email = email}
    IN IF ids = {} THEN None ELSE Some(CHOOSE i \in ids : TRUE)

\* get_current_user(credentials, db): [status, user]; status 200 carries the
\* id of the resolved user, 401 is the HTTPException raised
\* (variant: the ativo column is not consulted)
get_current_user_any(token) ==
    LET payload == verify_token(token, now)
    IN IF IsNone(payload) THEN [status |-> 401, user |-> 0]
       ELSE LET user == get_user_by_email(Val(Val(payload).sub))
            IN IF IsNone(user) THEN [status |-> 401, user |-> 0]
               ELSE [status |-> 200, user |-> Val(user)]
get_current_user(token) ==
    LET payload == verify_token(token, now)
    IN IF IsNone(payload) THEN [status |-> 401, user |-> 0]
       ELSE IF IsNone(Val(payload).sub) THEN [status |-> 401, user |-> 0]
       ELSE LET user == get_user_by_email(Val(Val(payload).sub))
            IN IF IsNone(user) THEN [status |-> 401, user |-> 0]
               ELSE IF ~users[Val(user)].ativo THEN [status |-> 401, user |-> 0]
               ELSE [status |-> 200, user |-> Val(user)]

(************************ the users table **********************************)
\* columns of models.User that the modelled operations read or write
UserRow(email, role, setor, ativo) ==
    [email |-> email, role |-> role, setor |-> setor, ativo |-> ativo]

InitUsers ==
    (1 :> UserRow("dir@x", DIRETOR,     None,              TRUE))  @@
    (2 :> UserRow("ges@x", GESTOR,      Some(S_RH),        TRUE))  @@
    (3 :> UserRow("mkt@x", FUNCIONARIO, Some(S_marketing), TRUE))  @@
    (4 :> UserRow("rh@x",  FUNCIONARIO, Some(S_RH),        TRUE))  @@
    (5 :> UserRow("adm@x", "Admin",     Some(S_Marketing), TRUE))  @@
    (6 :> UserRow("off@x", GESTOR,      Some(S_Marketing), FALSE))

\* the attributes models.User maps (its columns)
UserColumns == {"id", "email", "nome", "cargo", "setor", "role", "password_hash",
                "ativo", "created_at", "updated_at"}

\* User(**kwargs): the declarative constructor raises TypeError for a keyword
\* that is no attribute of the mapped class
UserCtorOk(kwargs) == kwargs \subseteq UserColumns

\* reading an attribute of a loaded User: AttributeError unless it is mapped
HasAttr(name) == name \in UserColumns

\* Session.commit() of one loaded object: the UPDATE writes the mapped columns
\* among the attributes assigned on the object; an attribute that is no column
\* of the mapped class lives on the Python object only and is not written
Flush(row, assigned) ==
    [c \in DOMAIN row |-> IF c \in DOMAIN assigned THEN assigned[c] ELSE row[c]]

(************************ access decisions as calls ************************)
\* One call of an access-decision function on a principal drawn in InitAccess.
NoCheck(u) == [user |-> u, fn |-> "none", required |-> FUNCIONARIO,
               setor |-> S_Empty, status |-> 0, result |-> "none"]

CallRequireRole(q) ==
    /\ check' = [check EXCEPT !.fn = "require_role", !.required = q,
                              !.setor = S_Empty, !.result = "none",
                              !.status = require_role(check.user, q)]
    /\ UNCHANGED <<users, now, marketing_data, next_id, audit_log, queue, pc, req, resp, wsvars>>

CallCheckPermission(q) ==
    /\ check' = [check EXCEPT !.fn = "check_permission", !.required = q,
                              !.setor = S_Empty, !.status = 0,
                              !.result = check_permission(check.user, q)]
    /\ UNCHANGED <<users, now, marketing_data, next_id, audit_log, queue, pc, req, resp, wsvars>>

CallCanAccessSetor(s) ==
    /\ check' = [check EXCEPT !.fn = "can_access_setor", !.required = FUNCIONARIO,
                              !.setor = s, !.status = 0,
                              !.result = IF can_access_setor(check.user, s)
                                         THEN "True" ELSE "False"]
    /\ UNCHANGED <<users, now, marketing_data, next_id, audit_log, queue, pc, req, resp, wsvars>>

\* GET /auth/check-permissions: one entry of "accessible_setores"
CallServiceCanAccessSetor(s) ==
    /\ check' = [check EXCEPT !.fn = "AuthService.can_access_setor",
                              !.required = FUNCIONARIO, !.setor = s, !.status = 0,
                              !.result = AuthService_can_access_setor(check.user, s)]
    /\ UNCHANGED <<users, now, marketing_data, next_id, audit_log, queue, pc, req, resp, wsvars>>

(************************ token issue and verification as calls ************)
\* the claims and lifetimes (minutes) tokens are issued with
ClaimSets == [sub : {None, Some("dir@x"), Some("ghost@x")}]
Lifetimes == {None, Some(0), Some(30), Some(60)}

NoIssue == [fn |-> "none", data |-> [sub |-> None], expires_delta |-> None,
            issued |-> 0, token |-> NoToken, at |-> 0, result |-> None]

\* token = create_access_token(data, expires_delta)
CallCreateAccessToken(data, expires_delta) ==
    /\ check' = [NoIssue EXCEPT !.fn = "create_access_token", !.data = data,
                                !.expires_delta = expires_delta, !.issued = now,
                                !.token = create_access_token(data, expires_delta, now)]
    /\ UNCHANGED <<users, now, marketing_data, next_id, audit_log, queue, pc, req, resp, wsvars>>

\* verify_token(token) of the token issued, as issued or re-signed with
\* another key
CallVerifyToken(key) ==
    /\ check.fn # "none"
    /\ check' = [check EXCEPT !.fn = "verify_token", !.at = now,
                              !.token = [check.token EXCEPT !.key = key],
                              !.result = verify_token([check.token EXCEPT !.key = key], now)]
    /\ UNCHANGED <<users, now, marketing_data, next_id, audit_log, queue, pc, req, resp, wsvars>>

(************************ auth routes **************************************)
Response(op, status, detail, user, token, target) ==
    [op |-> op, status |-> status, detail |-> detail, user |-> user,
     token |-> token, target |-> target]

\* query parameters limit and offset (50 and 0 are the defaults)
PageParams == [limit : {1, 50}, offset : {0, 50}]
UserIds == 1..7      \* path parameter user_id; 7 names no row

\* resp holds the response a handler has produced until it is sent; a handler
\* step runs when no response is waiting to be sent
NoResponse == Response("none", 0, "", 0, NoToken, 0)
Ready == resp = NoResponse

SendResponse ==
    /\ ~Ready
    /\ resp' = NoResponse
    /\ UNCHANGED <<users, now, marketing_data, next_id, audit_log, queue, pc, req, check, wsvars>>

\* get_user_by_id(user_id)
get_user_by_id(user_id) == IF user_id \in DOMAIN users THEN Some(user_id) ELSE None

\* AuthService.deactivate_user(user_id, admin_user): the ValueError message or
\* "ok", and the users table after the call
\* (variant: the own-user test is missing)
deactivate_user_noself(user_id, admin) ==
    LET perm == check_permission(users[admin], DIRETOR)
    IN IF perm = "ValueError" THEN [detail |-> "is not a valid UserRole", users |-> users]
       ELSE IF perm = "False" THEN [detail |-> "Apenas diretores", users |-> users]
       ELSE IF IsNone(get_user_by_id(user_id))
            THEN [detail |-> "Usuario nao encontrado", users |-> users]
       ELSE [detail |-> "ok",
             users  |-> [users EXCEPT ![user_id] = Flush(@, [is_active |-> FALSE])]]
\* (variant: the row of the target is deleted)
deactivate_user_hard(user_id, admin) ==
    LET perm == check_permission(users[admin], DIRETOR)
    IN IF perm = "ValueError" THEN [detail |-> "is not a valid UserRole", users |-> users]
       ELSE IF perm = "False" THEN [detail |-> "Apenas diretores", users |-> users]
       ELSE IF IsNone(get_user_by_id(user_id))
            THEN [detail |-> "Usuario nao encontrado", users |-> users]
       ELSE IF user_id = admin
            THEN [detail |-> "desativar o proprio usuario", users |-> users]
       ELSE [detail |-> "ok",
             users  |-> [i \in DOMAIN users \ {user_id} |-> users[i]]]
\* (variant: the Diretor-only check is missing)
deactivate_user_anyrole(user_id, admin) ==
    IF IsNone(get_user_by_id(user_id))
    THEN [detail |-> "Usuario nao encontrado", users |-> users]
    ELSE IF user_id = admin
    THEN [detail |-> "desativar o proprio usuario", users |-> users]
    ELSE [detail |-> "ok",
          users  |-> [users EXCEPT ![user_id] = Flush(@, [is_active |-> FALSE])]]
deactivate_user(user_id, admin) ==
    LET perm == check_permission(users[admin], DIRETOR)
    IN IF perm = "ValueError" THEN [detail |-> "is not a valid UserRole", users |-> users]
       ELSE IF perm = "False" THEN [detail |-> "Apenas diretores", users |-> users]
       ELSE IF IsNone(get_user_by_id(user_id))
            THEN [detail |-> "Usuario nao encontrado", users |-> users]
       ELSE IF user_id = admin
            THEN [detail |-> "desativar o proprio usuario", users |-> users]
       ELSE [detail |-> "ok",
             users  |-> [users EXCEPT ![user_id] = Flush(@, [is_active |-> FALSE])]]

\* AuthService.create_user(user_create): the exception raised or "ok", and the
\* users table after the call (the role is one of RoleEnum: the request schema
\* has validated it)
create_user(email, role, setor) ==
    IF ~IsNone(get_user_by_email(email))
    THEN [detail |-> "ValueError", users |-> users]
    ELSE IF ~UserCtorOk({"email", "nome", "hashed_password", "role", "setor",
                         "is_active", "created_at"})
    THEN [detail |-> "TypeError", users |-> users]
    ELSE [detail |-> "ok",
          users  |-> users @@ ((Cardinality(DOMAIN users) + 1) :>
                                  UserRow(email, role, setor, TRUE))]

\* POST /auth/register
RegisterUser(email, role, setor) ==
    LET r == create_user(email, role, setor)
        status == IF r.detail = "ok" THEN 200
                  ELSE IF r.detail = "ValueError" THEN 400 ELSE 500
    IN /\ Ready
       /\ users' = r.users
       /\ resp' = Response("register", status, r.detail, 0, NoToken, 0)
       /\ UNCHANGED <<now, marketing_data, next_id, audit_log, queue, pc, req, check, wsvars>>

\* POST /auth/create-admin: create_admin_user()
CreateAdminUser ==
    LET exists == ~IsNone(get_user_by_email("admin@x"))
        r == create_user("admin@x", DIRETOR, Some(<<"T", "I">>))
        status == IF exists \/ r.detail = "ok" THEN 200
                  ELSE IF r.detail = "ValueError" THEN 400 ELSE 500
    IN /\ Ready
       /\ users' = IF exists THEN users ELSE r.users
       /\ resp' = Response("create-admin", status, IF exists THEN "info" ELSE r.detail,
                           0, NoToken, 0)
       /\ UNCHANGED <<now, marketing_data, next_id, audit_log, queue, pc, req, check, wsvars>>

\* AuthService.authenticate_user(email, password): "None", the exception
\* raised, or "user"; password_ok is the outcome of verify_password
authenticate_user(email, password_ok) ==
    IF IsNone(get_user_by_email(email)) THEN "None"
    ELSE IF ~HasAttr("is_active") THEN "AttributeError"
    ELSE IF ~users[Val(get_user_by_email(email))].ativo THEN "None"
    ELSE IF ~HasAttr("hashed_password") THEN "AttributeError"
    ELSE IF ~password_ok THEN "None"
    ELSE "user"

\* POST /auth/login: a token for the user with the default lifetime, 401 for
\* the ValueError of AuthService.login, 500 for any other exception
Login(email, password_ok) ==
    LET r == authenticate_user(email, password_ok)
        status == IF r = "user" THEN 200 ELSE IF r = "None" THEN 401 ELSE 500
    IN /\ Ready
       /\ resp' = Response("login", status, r, 0,
                           IF r = "user"
                           THEN create_access_token([sub |-> Some(email)], None, now)
                           ELSE NoToken, 0)
       /\ UNCHANGED <<users, now, marketing_data, next_id, audit_log, queue, pc, req, check, wsvars>>

\* POST /auth/logout: the dependency get_current_user, then a fixed body
\* (variant: logout marks the principal inactive to revoke the session)
Logout_revoke(token) ==
    LET cu == get_current_user(token)
    IN /\ Ready
       /\ resp' = Response("logout", cu.status, "", cu.user, token, 0)
       /\ users' = IF cu.status = 200
                   THEN [users EXCEPT ![cu.user].ativo = FALSE] ELSE users
       /\ UNCHANGED <<now, marketing_data, next_id, audit_log, queue, pc, req, check, wsvars>>
Logout(token) ==
    LET cu == get_current_user(token)
    IN /\ Ready
       /\ resp' = Response("logout", cu.status, "", cu.user, token, 0)
       /\ UNCHANGED <<users, now, marketing_data, next_id, audit_log, queue, pc, req, check, wsvars>>

\* the rows the query of AuthService.list_users selects for the requester:
\* every row for a Diretor, else the rows whose setor equals the requester's
ListQuery(user) ==
    IF user.role # DIRETOR
    THEN {i \in DOMAIN users : users[i].setor = user.setor}
    ELSE DOMAIN users

\* query.offset(offset).limit(limit).all(): the query has no ORDER BY, so the
\* page is any selection of the right size among the selected rows
Pages(selected, limit, offset) ==
    LET n    == Cardinality(selected)
        rest == IF offset >= n THEN 0 ELSE n - offset
        k    == IF limit < rest THEN limit ELSE rest
    IN {p \in SUBSET selected : Cardinality(p) = k}

\* AuthService.list_users(user, limit, offset) for the page the database
\* returned: "success" or the exception raised; every listed item reads
\* u.is_active and u.last_login
list_users(user, page) ==
    IF check_permission(user, GESTOR) = "ValueError" THEN "ValueError"
    ELSE IF check_permission(user, GESTOR) # "True" THEN "ValueError"
    ELSE IF page # {} /\ ~(HasAttr("is_active") /\ HasAttr("last_login"))
         THEN "AttributeError"
    ELSE "success"

\* the response of GET /auth/users: the body's "users" (as ids) and "total"
\* beside the request's limit and offset
ListResponse(status, detail, user, token, limit, offset, total, items) ==
    [op |-> "users", status |-> status, detail |-> detail, user |-> user,
     token |-> token, target |-> 0, limit |-> limit, offset |-> offset,
     total |-> total, items |-> items]

\* GET /auth/users: 403 for a ValueError, 500 for any other exception
ListUsers(token, limit, offset) ==
    LET cu == get_current_user(token)
    IN /\ Ready
       /\ IF cu.status # 200
          THEN resp' = ListResponse(cu.status, "", 0, token, limit, offset, 0, {})
          ELSE \E page \in Pages(ListQuery(users[cu.user]), limit, offset) :
                  LET r == list_users(users[cu.user], page)
                  IN resp' = IF r = "success"
                             THEN ListResponse(200, r, cu.user, token, limit, offset,
                                               Cardinality(ListQuery(users[cu.user])), page)
                             ELSE ListResponse(IF r = "ValueError" THEN 403 ELSE 500,
                                               r, cu.user, token, limit, offset, 0, {})
       /\ UNCHANGED <<users, now, marketing_data, next_id, audit_log, queue, pc, req, check, wsvars>>

\* GET /auth/me
GetCurrentUserInfo(token) ==
    LET cu == get_current_user(token)
    IN /\ Ready
       /\ resp' = Response("me", cu.status, "", cu.user, token, 0)
       /\ UNCHANGED <<users, now, marketing_data, next_id, audit_log, queue, pc, req, check, wsvars>>

\* one call of verify_token(token); the response slot carries what the caller
\* gets back: "None" or "payload"
VerifyToken(token) ==
    /\ Ready
    /\ resp' = Response("verify", 0,
                        IF IsNone(verify_token(token, now)) THEN "None" ELSE "payload",
                        0, token, 0)
    /\ UNCHANGED <<users, now, marketing_data, next_id, audit_log, queue, pc, req, check, wsvars>>

\* PATCH /auth/users/{user_id}/deactivate
DeactivateUser(token, user_id) ==
    LET cu == get_current_user(token)
    IN /\ Ready
       /\ IF cu.status # 200
          THEN /\ resp' = Response("deactivate", cu.status, "", 0, token, user_id)
               /\ UNCHANGED <<users, now, marketing_data, next_id, audit_log, queue,
                              pc, req, check, wsvars>>
          ELSE LET r == deactivate_user(user_id, cu.user)
                   status == IF r.detail = "ok" THEN 200
                             ELSE IF r.detail = "Apenas diretores" THEN 403
                             ELSE 400
               IN /\ users' = r.users
                  /\ resp' = Response("deactivate", status, r.detail, cu.user, token, user_id)
                  /\ UNCHANGED <<now, marketing_data, next_id, audit_log, queue,
                                 pc, req, check, wsvars>>

\* the clock advances
Tick ==
    /\ Ready
    /\ now < MaxTime
    /\ now' = now + 1
    /\ UNCHANGED <<users, marketing_data, next_id, audit_log, queue, pc, req, resp, check, wsvars>>

(************************ marketing pipeline: data *************************)
Workers   == 1..NumWorkers
DataRefs  == {1}
Canais    == {"Google", "Facebook"}
Campanhas == {"X"}
Investimentos == {0, 100, 500}
DraftInvestimentos == {100}

\* MarketingDataCreate, as validated (ge=0 on the metrics)
Drafts == [data_ref : DataRefs, canal : Canais, campanha : Campanhas,
           investimento : DraftInvestimentos]

\* MarketingDataUpdate: every field Optional; None here is "field not sent"
PatchFields == {"canal", "campanha", "investimento"}
NoPatch == [canal |-> None, campanha |-> None, investimento |-> None]
\* the request bodies tried: no field, one metric, the key fields
Patches == {NoPatch,
            [NoPatch EXCEPT !.investimento = Some(500)],
            [NoPatch EXCEPT !.canal = Some("Google"), !.campanha = Some("X")]}
\* the request bodies as sent: the validated ones and one with a negative
\* metric each
RawDrafts  == Drafts \cup {[data_ref |-> 1, canal |-> "Google", campanha |-> "X",
                            investimento |-> -5]}
RawPatches == Patches \cup {[NoPatch EXCEPT !.investimento = Some(-5)]}

\* MarketingDataCreate(**body): Field(..., ge=0) on every metric
\* (variant: the metrics carry no constraint)
MarketingDataCreate_anysign(body) == TRUE
MarketingDataCreate_valid(body) == body.investimento >= 0
\* MarketingDataUpdate(**body): Optional, Field(None, ge=0) on every metric
MarketingDataUpdate_valid(body) ==
    IsNone(body.investimento) \/ Val(body.investimento) >= 0

\* the request bodies tried where the caller varies
GateDrafts  == {d \in Drafts : d.canal = "Google"}
GatePatches == {[NoPatch EXCEPT !.investimento = Some(500)]}

RecordIds == 1..(MaxId + 1)     \* path parameter data_id

NoDraft  == [data_ref |-> 0, canal |-> "", campanha |-> "", investimento |-> 0]
NoBefore == [canal |-> "", campanha |-> "", investimento |-> 0]
NoReq    == [user |-> 0, id |-> 0, data |-> NoDraft, before |-> NoBefore, patch |-> NoPatch]

\* bearer tokens the pipeline requests carry: a valid token of a Diretor, of
\* a Funcionario of the sector, of a Funcionario of another sector, of a
\* principal with an unknown role, and a token that does not verify
PipeEmails == {"dir@x", "mkt@x", "rh@x", "adm@x"}
PipeTokens == {t \in Tokens : t.wellformed /\ t.key = SECRET_KEY /\ t.exp = MaxTime
                              /\ ~IsNone(t.sub) /\ Val(t.sub) \in PipeEmails}
              \cup {NoToken}
\* the callers of the write handlers where the request bodies vary: the
\* Funcionario of the sector and the Funcionario of another sector
WriteTokens == {t \in PipeTokens : ~IsNone(t.sub) /\ Val(t.sub) \in {"mkt@x", "rh@x"}}

\* the natural key of a row or draft
NaturalKey(r) == <<r.data_ref, r.canal, r.campanha>>

\* check_duplicate(db, data_ref, canal, campanha)
\* (variant: canal and campanha are compared with each other's column)
check_duplicate_swapped(data_ref, canal, campanha) ==
    \E i \in DOMAIN marketing_data :
        /\ marketing_data[i].data_ref = data_ref
        /\ marketing_data[i].canal = campanha
        /\ marketing_data[i].campanha = canal
check_duplicate(data_ref, canal, campanha) ==
    \E i \in DOMAIN marketing_data :
        /\ marketing_data[i].data_ref = data_ref
        /\ marketing_data[i].canal = canal
        /\ marketing_data[i].campanha = campanha

\* json.dumps(...) if d else None, for a patch: a dict with no key is falsy
PatchOrNone(patch) == IF \A f \in PatchFields : IsNone(patch[f]) THEN None ELSE Some(patch)

\* create_audit_log(db, user, acao, tabela, registro_id, dados_antes, dados_depois)
\* (variant: the entry does not carry the acting user)
create_audit_log_noactor(user, acao, tabela, registro_id, dados_antes, dados_depois) ==
    [user_id |-> 0, acao |-> acao, tabela |-> tabela, registro_id |-> registro_id,
     dados_antes |-> dados_antes, dados_depois |-> dados_depois]
create_audit_log(user, acao, tabela, registro_id, dados_antes, dados_depois) ==
    [user_id |-> user, acao |-> acao, tabela |-> tabela, registro_id |-> registro_id,
     dados_antes |-> dados_antes, dados_depois |-> dados_depois]

\* the dependencies of every marketing endpoint: get_current_user, then the
\* sector gate; [status, user]
\* (variant: the sector gate is not attached to the endpoint)
MarketingDeps_nogate(token) == get_current_user(token)
MarketingDeps(token) ==
    LET cu == get_current_user(token)
    IN IF cu.status # 200 THEN cu
       ELSE IF require_marketing_access(users[cu.user]) # 200
            THEN [status |-> 403, user |-> cu.user]
       ELSE cu

Finish(w, r) ==
    /\ resp' = r
    /\ pc' = [pc EXCEPT ![w] = "idle"]
    /\ req' = [req EXCEPT ![w] = NoReq]

Reject(op, deps) ==
    /\ resp' = Response(op, deps.status, "", 0, NoToken, 0)
    /\ UNCHANGED <<users, now, marketing_data, next_id, audit_log, queue, pc, req, check, wsvars>>

\* a request is served by the first free worker of the pool
CanStart(w) ==
    /\ Ready
    /\ pc[w] = "idle"
    /\ \A v \in Workers : v < w => pc[v] # "idle"

InFlight(positions) == Cardinality({v \in Workers : pc[v] \in positions})
Audited(acao) == Cardinality({i \in 1..Len(audit_log) : audit_log[i].acao = acao})
\* the updates applied to the row id: counted on the row while it is stored,
\* by its UPDATE entries once it is deleted
RevisionsOf(i) ==
    IF i \in DOMAIN marketing_data THEN marketing_data[i].updated_at
    ELSE Cardinality({k \in 1..Len(audit_log) :
             audit_log[k].acao = "UPDATE" /\ audit_log[k].registro_id = i})
RECURSIVE Revisions(_)
Revisions(ids) ==
    IF ids = {} THEN 0
    ELSE LET i == CHOOSE j \in ids : TRUE
         IN RevisionsOf(i) + Revisions(ids \ {i})

\* the writes started so far: rows inserted, updates applied, deletes audited
\* and the writes whose first commit is pending
OpsStarted ==
    (next_id - 1) + Revisions(1..(next_id - 1)) + Audited("DELETE")
    + InFlight({"create_insert", "update_commit", "delete_commit"})

\* the budgets of the three write handlers; a request that is rejected
\* (401, 403, 404, 409) starts no write and is always served
CreateBudget == next_id + InFlight({"create_insert"}) <= MaxId /\ OpsStarted < MaxOps
UpdateBudget ==
    /\ Revisions(1..(next_id - 1)) + InFlight({"update_commit"}) < MaxUpdates
    /\ OpsStarted < MaxOps
DeleteBudget == Audited("DELETE") + InFlight({"delete_commit"}) < MaxDeletes /\ OpsStarted < MaxOps

(************************ POST /marketing/data *****************************)
\* dependencies, validation of the body (422) and the duplicate pre-check
BeginCreate(w, token, data) ==
    /\ CanStart(w)
    /\ LET deps == MarketingDeps(token)
       IN IF deps.status # 200 THEN Reject("create", deps)
          ELSE IF ~MarketingDataCreate_valid(data)
               THEN /\ resp' = Response("create", 422, "", 0, NoToken, 0)
                    /\ UNCHANGED <<users, now, marketing_data, next_id, audit_log,
                                   queue, pc, req, check, wsvars>>
          ELSE IF check_duplicate(data.data_ref, data.canal, data.campanha)
               THEN /\ resp' = Response("create", 409, "", 0, NoToken, 0)
                    /\ UNCHANGED <<users, now, marketing_data, next_id, audit_log,
                                   queue, pc, req, check, wsvars>>
          ELSE /\ CreateBudget
               /\ pc' = [pc EXCEPT ![w] = "create_insert"]
               /\ req' = [req EXCEPT ![w] = [NoReq EXCEPT !.user = deps.user, !.data = data]]
               /\ UNCHANGED <<users, now, marketing_data, next_id, audit_log,
                              queue, resp, check, wsvars>>

\* db.add(db_data); db.commit(); db.refresh(db_data)
\* idx_marketing_unique is a plain Index (no unique=True): the INSERT is
\* accepted whatever rows exist
CreateInsert(w) ==
    /\ Ready
    /\ pc[w] = "create_insert"
    /\ marketing_data' = marketing_data @@
           (next_id :> [data_ref |-> req[w].data.data_ref, canal |-> req[w].data.canal,
                        campanha |-> req[w].data.campanha,
                        investimento |-> req[w].data.investimento,
                        user_id |-> req[w].user, updated_at |-> 0])
    /\ next_id' = next_id + 1
    /\ req' = [req EXCEPT ![w].id = next_id]
    /\ pc' = [pc EXCEPT ![w] = "create_audit"]
    /\ UNCHANGED <<users, now, audit_log, queue, resp, check, wsvars>>

\* create_audit_log(...); db.commit()
CreateAudit(w) ==
    /\ Ready
    /\ pc[w] = "create_audit"
    /\ audit_log' = Append(audit_log,
           create_audit_log(req[w].user, "CREATE", "marketing_data", req[w].id,
                            None, Some(req[w].data)))
    /\ pc' = [pc EXCEPT ![w] = "create_enqueue"]
    /\ UNCHANGED <<users, now, marketing_data, next_id, queue, req, resp, check, wsvars>>

\* the job add_kpi_job builds (dateRef follows from the record)
KpiJob(sector, action, data_id, user_id) ==
    [sector |-> sector, action |-> action, dataId |-> data_id, userId |-> user_id]

\* the handler positions at which queue_service.add_kpi_job is called
EnqueueSteps == {"create_enqueue"}

\* queue_service.add_kpi_job(...) inside try/except Exception; return db_data
\* (variant: the exception of add_kpi_job is not caught)
CreateEnqueue_fatal(w) ==
    /\ Ready
    /\ pc[w] = "create_enqueue"
    /\ \/ /\ queue' = <<KpiJob("marketing", "calculate", req[w].id, req[w].user)>> \o queue
          /\ Finish(w, Response("create", 201, "", req[w].user, NoToken, req[w].id))
       \/ /\ queue' = queue
          /\ Finish(w, Response("create", 500, "", 0, NoToken, 0))
    /\ UNCHANGED <<users, now, marketing_data, next_id, audit_log, check, wsvars>>
CreateEnqueue(w) ==
    /\ Ready
    /\ pc[w] = "create_enqueue"
    /\ \/ queue' = <<KpiJob("marketing", "calculate", req[w].id, req[w].user)>> \o queue
       \/ queue' = queue       \* lpush raised; the exception is printed and dropped
    /\ Finish(w, Response("create", 201, "", req[w].user, NoToken, req[w].id))
    /\ UNCHANGED <<users, now, marketing_data, next_id, audit_log, check, wsvars>>

(************************ PUT /marketing/data/{data_id} ********************)
\* dependencies, validation of the body (422), load by id, snapshot
\* dados_antes, take the fields sent
BeginUpdate(w, token, data_id, data_update) ==
    /\ CanStart(w)
    /\ LET deps == MarketingDeps(token)
       IN IF deps.status # 200 THEN Reject("update", deps)
          ELSE IF ~MarketingDataUpdate_valid(data_update)
               THEN /\ resp' = Response("update", 422, "", 0, NoToken, 0)
                    /\ UNCHANGED <<users, now, marketing_data, next_id, audit_log,
                                   queue, pc, req, check, wsvars>>
          ELSE IF data_id \notin DOMAIN marketing_data
               THEN /\ resp' = Response("update", 404, "", 0, NoToken, data_id)
                    /\ UNCHANGED <<users, now, marketing_data, next_id, audit_log,
                                   queue, pc, req, check, wsvars>>
          ELSE /\ UpdateBudget
               /\ pc' = [pc EXCEPT ![w] = "update_commit"]
               /\ req' = [req EXCEPT ![w] =
                     [NoReq EXCEPT !.user = deps.user, !.id = data_id,
                                   !.patch = data_update,
                                   !.before = [f \in PatchFields |-> marketing_data[data_id][f]]]]
               /\ UNCHANGED <<users, now, marketing_data, next_id, audit_log,
                              queue, resp, check, wsvars>>

\* the row after "for field, value in update_data.items(): setattr(...)" and
\* the flush: the UPDATE carries the columns whose value differs from the one
\* loaded; no check of the natural key precedes it
\* updated_at is kept as the number of updates the row has received
ApplyPatch_keyfrozen(row, before, patch) ==
    [c \in DOMAIN row |->
        IF c \in {"investimento"} /\ ~IsNone(patch[c]) /\ Val(patch[c]) # before[c]
        THEN Val(patch[c])
        ELSE IF c = "updated_at" THEN row[c] + 1
        ELSE row[c]]
\* (variant: a field that was not sent is written with the schema's default)
ApplyPatch_reset(row, before, patch) ==
    [c \in DOMAIN row |->
        IF c \in PatchFields /\ ~IsNone(patch[c]) THEN Val(patch[c])
        ELSE IF c = "investimento" THEN 0
        ELSE IF c = "updated_at" THEN row[c] + 1
        ELSE row[c]]
ApplyPatch(row, before, patch) ==
    [c \in DOMAIN row |->
        IF c \in PatchFields /\ ~IsNone(patch[c]) /\ Val(patch[c]) # before[c]
        THEN Val(patch[c])
        ELSE IF c = "updated_at" THEN row[c] + 1
        ELSE row[c]]

\* db_data.updated_at = utcnow(); db.commit(); db.refresh(db_data)
\* (the UPDATE of a row deleted meanwhile matches no row: StaleDataError)
UpdateCommit(w) ==
    /\ Ready
    /\ pc[w] = "update_commit"
    /\ IF req[w].id \notin DOMAIN marketing_data
       THEN /\ Finish(w, Response("update", 500, "", 0, NoToken, 0))
            /\ UNCHANGED <<users, now, marketing_data, next_id, audit_log, queue, check, wsvars>>
       ELSE /\ marketing_data' = [marketing_data EXCEPT ![req[w].id] =
                                     ApplyPatch(@, req[w].before, req[w].patch)]
            /\ pc' = [pc EXCEPT ![w] = "update_audit"]
            /\ UNCHANGED <<users, now, next_id, audit_log, queue, req, resp, check, wsvars>>

\* create_audit_log(...); db.commit(); return db_data
UpdateAudit(w) ==
    /\ Ready
    /\ pc[w] = "update_audit"
    /\ audit_log' = Append(audit_log,
           create_audit_log(req[w].user, "UPDATE", "marketing_data", req[w].id,
                            Some(req[w].before), PatchOrNone(req[w].patch)))
    /\ Finish(w, Response("update", 200, "", req[w].user, NoToken, req[w].id))
    /\ UNCHANGED <<users, now, marketing_data, next_id, queue, check, wsvars>>

(************************ DELETE /marketing/data/{data_id} *****************)
BeginDelete(w, token, data_id) ==
    /\ CanStart(w)
    /\ LET deps == MarketingDeps(token)
       IN IF deps.status # 200 THEN Reject("delete", deps)
          ELSE IF data_id \notin DOMAIN marketing_data
               THEN /\ resp' = Response("delete", 404, "", 0, NoToken, data_id)
                    /\ UNCHANGED <<users, now, marketing_data, next_id, audit_log,
                                   queue, pc, req, check, wsvars>>
          ELSE /\ DeleteBudget
               /\ pc' = [pc EXCEPT ![w] = "delete_commit"]
               /\ req' = [req EXCEPT ![w] =
                     [NoReq EXCEPT !.user = deps.user, !.id = data_id,
                                   !.before = [f \in PatchFields |-> marketing_data[data_id][f]]]]
               /\ UNCHANGED <<users, now, marketing_data, next_id, audit_log,
                              queue, resp, check, wsvars>>

\* db.delete(db_data); create_audit_log(...); db.commit(): one transaction
\* (variant: db.delete(db_data) is missing)
DeleteCommit_keep(w) ==
    /\ Ready
    /\ pc[w] = "delete_commit"
    /\ audit_log' = Append(audit_log,
           create_audit_log(req[w].user, "DELETE", "marketing_data", req[w].id,
                            Some(req[w].before), None))
    /\ Finish(w, Response("delete", 200, "", req[w].user, NoToken, req[w].id))
    /\ UNCHANGED <<users, now, marketing_data, next_id, queue, check, wsvars>>
DeleteCommit(w) ==
    /\ Ready
    /\ pc[w] = "delete_commit"
    /\ marketing_data' = [i \in DOMAIN marketing_data \ {req[w].id} |-> marketing_data[i]]
    /\ audit_log' = Append(audit_log,
           create_audit_log(req[w].user, "DELETE", "marketing_data", req[w].id,
                            Some(req[w].before), None))
    /\ Finish(w, Response("delete", 200, "", req[w].user, NoToken, req[w].id))
    /\ UNCHANGED <<users, now, next_id, queue, check, wsvars>>

(************************ reads ********************************************)
\* GET /marketing/data
ListData(token) ==
    LET deps == MarketingDeps(token)
    IN /\ Ready
       /\ resp' = Response("list", deps.status, "", 0, NoToken, 0)
       /\ UNCHANGED <<users, now, marketing_data, next_id, audit_log, queue, pc, req, check, wsvars>>

\* GET /marketing/data/{data_id}
GetData(token, data_id) ==
    LET deps == MarketingDeps(token)
        status == IF deps.status # 200 THEN deps.status
                  ELSE IF data_id \notin DOMAIN marketing_data THEN 404 ELSE 200
    IN /\ Ready
       /\ resp' = Response("get", status, "", 0, NoToken, IF status = 404 THEN data_id ELSE 0)
       /\ UNCHANGED <<users, now, marketing_data, next_id, audit_log, queue, pc, req, check, wsvars>>

\* GET /marketing/stats
GetStats(token) ==
    LET deps == MarketingDeps(token)
    IN /\ Ready
       /\ resp' = Response("stats", deps.status, "", 0, NoToken, 0)
       /\ UNCHANGED <<users, now, marketing_data, next_id, audit_log, queue, pc, req, check, wsvars>>

(************************ statistics ***************************************)
\* the metric columns of a stored row the statistics read, each either 0 or
\* positive; cliques, conversoes and receita are positive in every row
StatsMetrics == [investimento : {0, 100}, leads : {0, 2}, vendas : {0, 1},
                 impressoes : {0, 1000}, cliques : {10}, conversoes : {1},
                 receita : {300}]
\* a stored row with its metrics: one row per date, the canal alternating
StatsRow(i, m) ==
    [data_ref |-> i, canal |-> IF i % 2 = 1 THEN "Google" ELSE "Facebook",
     campanha |-> "X", investimento |-> m.investimento, leads |-> m.leads,
     vendas |-> m.vendas, impressoes |-> m.impressoes, cliques |-> m.cliques,
     conversoes |-> m.conversoes, receita |-> m.receita,
     user_id |-> 3, updated_at |-> 0]

\* query parameters data_inicio and data_fim
Periods == [data_inicio : {None, Some(2)}, data_fim : {None, Some(1)}]

\* the rows the filtered query selects ("if data_inicio:" is true of any date)
StatsQuery(data_inicio, data_fim) ==
    {i \in DOMAIN marketing_data :
        /\ IsNone(data_inicio) \/ marketing_data[i].data_ref >= Val(data_inicio)
        /\ IsNone(data_fim) \/ marketing_data[i].data_ref <= Val(data_fim)}

\* func.sum(column) over the selected rows: NULL (None) over no row
RECURSIVE SumOf(_, _)
SumOf(ids, col) ==
    IF ids = {} THEN 0
    ELSE LET i == CHOOSE j \in ids : TRUE
         IN marketing_data[i][col] + SumOf(ids \ {i}, col)
SqlSum(ids, col) == IF ids = {} THEN None ELSE Some(SumOf(ids, col))
\* "stats.total or 0"
OrZero(o) == IF IsNone(o) THEN 0 ELSE Val(o)

\* the nearest integer to n/d for d > 0, a tie going to the even one, as
\* round() does
RoundDiv(n, d) ==
    LET q == n \div d
        r == n % d
    IN IF 2 * r < d THEN q
       ELSE IF 2 * r > d THEN q + 1
       ELSE IF q % 2 = 0 THEN q ELSE q + 1

\* a computed ratio: the value in hundredths (round(x, 2)), or the
\* ZeroDivisionError that "/" raises for a zero divisor
Zero == [fault |-> FALSE, value |-> 0]
PyDiv(num, den, scale) ==
    IF den = 0 THEN [fault |-> TRUE, value |-> 0]
    ELSE [fault |-> FALSE, value |-> RoundDiv(num * scale * 100, den)]

\* roi = (receita - investimento) / investimento * 100 if investimento > 0 else 0
roi(total_receita, total_investimento) ==
    IF total_investimento > 0
    THEN PyDiv(total_receita - total_investimento, total_investimento, 100) ELSE Zero
\* cpl = investimento / leads if leads > 0 else 0
\* (variant: the guard on leads is missing)
cpl_unguarded(total_investimento, total_leads) ==
    PyDiv(total_investimento, total_leads, 1)
cpl(total_investimento, total_leads) ==
    IF total_leads > 0 THEN PyDiv(total_investimento, total_leads, 1) ELSE Zero
\* taxa_conversao = vendas / leads * 100 if leads > 0 else 0
taxa_conversao(total_vendas, total_leads) ==
    IF total_leads > 0 THEN PyDiv(total_vendas, total_leads, 100) ELSE Zero
\* ctr = cliques / impressoes * 100 if impressoes > 0 else 0
ctr(total_cliques, total_impressoes) ==
    IF total_impressoes > 0 THEN PyDiv(total_cliques, total_impressoes, 100) ELSE Zero
\* ticket_medio = receita / vendas if vendas > 0 else 0
ticket_medio(total_receita, total_vendas) ==
    IF total_vendas > 0 THEN PyDiv(total_receita, total_vendas, 1) ELSE Zero
\* por_canal roi = (rec - inv) / inv * 100 if inv and inv > 0 else 0
canal_roi(rec, inv) ==
    IF inv # 0 /\ inv > 0 THEN PyDiv(rec - inv, inv, 100) ELSE Zero

\* the body get_marketing_stats computes: "metricas" and the roi of each
\* canal of "por_canal" (group_by canal over the selected rows)
get_marketing_stats(data_inicio, data_fim) ==
    LET ids == StatsQuery(data_inicio, data_fim)
        total_investimento == OrZero(SqlSum(ids, "investimento"))
        total_leads        == OrZero(SqlSum(ids, "leads"))
        total_vendas       == OrZero(SqlSum(ids, "vendas"))
        total_receita      == OrZero(SqlSum(ids, "receita"))
        total_cliques      == OrZero(SqlSum(ids, "cliques"))
        total_impressoes   == OrZero(SqlSum(ids, "impressoes"))
        canais == {marketing_data[i].canal : i \in ids}
        OfCanal(c) == {i \in ids : marketing_data[i].canal = c}
    IN [registros |-> Cardinality(ids),
        metricas |->
           [roi_percentual |-> roi(total_receita, total_investimento),
            cpl |-> cpl(total_investimento, total_leads),
            taxa_conversao_percentual |-> taxa_conversao(total_vendas, total_leads),
            ctr_percentual |-> ctr(total_cliques, total_impressoes),
            ticket_medio |-> ticket_medio(total_receita, total_vendas)],
        por_canal |->
           [c \in canais |->
               canal_roi(OrZero(SqlSum(OfCanal(c), "receita")),
                         OrZero(SqlSum(OfCanal(c), "investimento")))]]

\* the response of GET /marketing/stats beside the request's period
StatsResponse(status, detail, data_inicio, data_fim, body) ==
    [op |-> "stats", status |-> status, detail |-> detail, user |-> 0,
     token |-> NoToken, target |-> 0, data_inicio |-> data_inicio,
     data_fim |-> data_fim, body |-> body]

\* GET /marketing/stats with its arithmetic: an exception that escapes the
\* handler is answered 500
GetMarketingStats(token, data_inicio, data_fim) ==
    LET deps == MarketingDeps(token)
        body == get_marketing_stats(data_inicio, data_fim)
        NoStats == [registros |-> 0, metricas |-> <<>>, por_canal |-> <<>>]
        fault == \/ \E k \in DOMAIN body.metricas : body.metricas[k].fault
                 \/ \E c \in DOMAIN body.por_canal : body.por_canal[c].fault
    IN /\ Ready
       /\ resp' = IF deps.status # 200
                  THEN StatsResponse(deps.status, "", data_inicio, data_fim, NoStats)
                  ELSE IF fault
                  THEN StatsResponse(500, "ZeroDivisionError", data_inicio, data_fim, NoStats)
                  ELSE StatsResponse(200, "success", data_inicio, data_fim, body)
       /\ UNCHANGED <<users, now, marketing_data, next_id, audit_log, queue, pc, req, check, wsvars>>

\* a pending db.commit() raises (the store is unreachable): the handler ends
\* with an unhandled exception, what earlier commits stored stays stored
CommitFails(w) ==
    /\ Ready
    /\ pc[w] \in {"create_insert", "create_audit", "update_commit", "update_audit",
                  "delete_commit"}
    /\ Finish(w, Response("failed", 500, "", 0, NoToken, 0))
    /\ UNCHANGED <<users, now, marketing_data, next_id, audit_log, queue, check, wsvars>>

(************************ POST /auth/register, step by step ****************)
\* the request bodies of concurrent registrations
RegBodies == [email : {"new@x", "two@x", "dir@x"}, role : RoleEnum, setor : {None, Some(S_Marketing)}]

\* create_user up to the pre-check: get_user_by_email, ValueError (400) for an
\* email in use
BeginRegister(w, body) ==
    /\ Ready
    /\ pc[w] = "idle"
    /\ IF ~IsNone(get_user_by_email(body.email))
       THEN /\ resp' = Response("register", 400, "ValueError", 0, NoToken, 0)
            /\ UNCHANGED <<users, now, marketing_data, next_id, audit_log, queue,
                           pc, req, check, wsvars>>
       ELSE /\ pc' = [pc EXCEPT ![w] = "register_store"]
            /\ req' = [req EXCEPT ![w] = body]
            /\ UNCHANGED <<users, now, marketing_data, next_id, audit_log, queue,
                           resp, check, wsvars>>

\* create_user from User(...) on: TypeError (500) from the constructor; else
\* the INSERT, which the UNIQUE index on users.email rejects for an email
\* stored meanwhile (IntegrityError, rollback, ValueError, 400)
RegisterStore(w) ==
    /\ Ready
    /\ pc[w] = "register_store"
    /\ LET body == req[w]
           outcome == IF ~UserCtorOk({"email", "nome", "hashed_password", "role",
                                      "setor", "is_active", "created_at"})
                      THEN "TypeError"
                      ELSE IF ~IsNone(get_user_by_email(body.email)) THEN "ValueError"
                      ELSE "ok"
       IN /\ users' = IF outcome = "ok"
                      THEN users @@ ((Cardinality(DOMAIN users) + 1) :>
                                        UserRow(body.email, body.role, body.setor, TRUE))
                      ELSE users
          /\ Finish(w, Response("register",
                                IF outcome = "ok" THEN 200
                                ELSE IF outcome = "ValueError" THEN 400 ELSE 500,
                                outcome, 0, NoToken, 0))
    /\ UNCHANGED <<now, marketing_data, next_id, audit_log, queue, check, wsvars>>

(************************ WebSocket fan-out ********************************)
Range(seq) == {seq[i] : i \in DOMAIN seq}

\* list.remove(x): the list without the first occurrence of x
ListRemove(list, x) ==
    LET k == CHOOSE i \in DOMAIN list :
                 list[i] = x /\ \A j \in 1..(i - 1) : list[j] # x
    IN SubSeq(list, 1, k - 1) \o SubSeq(list, k + 1, Len(list))

\* ConnectionManager.disconnect(websocket) on a list
disconnect(list, websocket) ==
    IF websocket \in Range(list) THEN ListRemove(list, websocket) ELSE list

\* "for conn in disconnected: self.disconnect(conn)"
RECURSIVE DisconnectAll(_, _)
DisconnectAll(list, conns) ==
    IF conns = <<>> THEN list
    ELSE DisconnectAll(disconnect(list, Head(conns)), Tail(conns))

\* every running broadcast forgets, in "whole", the connections a disconnect
\* has removed
Forget(removed) ==
    [b \in Broadcasts |-> [frames[b] EXCEPT !.whole = @ \ removed]]

\* websocket_endpoint up to its loop: manager.connect(websocket) accepts and
\* appends (clients connect in the order of their numbers)
Connect(c) ==
    /\ websockets[c] = "new"
    /\ \A d \in Sockets : d < c => websockets[d] # "new"
    /\ websockets' = [websockets EXCEPT ![c] = "open"]
    /\ active_connections' = Append(active_connections, c)
    /\ UNCHANGED <<users, now, marketing_data, next_id, audit_log, queue, pc, req,
                   resp, check, frames>>

\* the peer of a connection goes away: from now on send_text and
\* receive_text on it raise
PeerGone(c) ==
    /\ websockets[c] = "open"
    /\ websockets' = [websockets EXCEPT ![c] = "closed"]
    /\ UNCHANGED <<users, now, marketing_data, next_id, audit_log, queue, pc, req,
                   resp, check, active_connections, frames>>

\* websocket_endpoint ends: receive_text raised WebSocketDisconnect, or the
\* send of send_personal_message raised; either way manager.disconnect
EndpointDisconnect(c) ==
    /\ websockets[c] = "closed"
    /\ websockets' = [websockets EXCEPT ![c] = "done"]
    /\ active_connections' = disconnect(active_connections, c)
    /\ frames' = Forget({c})
    /\ UNCHANGED <<users, now, marketing_data, next_id, audit_log, queue, pc, req,
                   resp, check>>

\* broadcast(message) is called: disconnected = [], the loop's iterator is
\* created
BroadcastBegin(b) ==
    /\ frames[b].pc = "idle"
    /\ \A a \in Broadcasts : a < b => frames[a].pc # "idle"
    /\ frames' = [frames EXCEPT ![b] = [NoFrame EXCEPT !.pc = "loop",
                                           !.whole = Range(active_connections)]]
    /\ UNCHANGED <<users, now, marketing_data, next_id, audit_log, queue, pc, req,
                   resp, check, active_connections, websockets>>

\* one round of "for connection in self.active_connections": the iterator
\* yields the element at its index in the list as it is now, and
\* "await connection.send_text(...)" returns or raises
BroadcastSend(b) ==
    /\ frames[b].pc = "loop"
    /\ frames[b].index < Len(active_connections)
    /\ LET connection == active_connections[frames[b].index + 1]
       IN frames' = [frames EXCEPT
              ![b].index = @ + 1,
              ![b].sent = IF websockets[connection] = "open"
                          THEN Append(@, connection) ELSE @,
              ![b].disconnected = IF websockets[connection] = "open"
                                  THEN @ ELSE Append(@, connection)]
    /\ UNCHANGED <<users, now, marketing_data, next_id, audit_log, queue, pc, req,
                   resp, check, active_connections, websockets>>

\* the iterator is exhausted: "for conn in disconnected:
\* self.disconnect(conn)", and broadcast returns
BroadcastReturn(b) ==
    /\ frames[b].pc = "loop"
    /\ frames[b].index >= Len(active_connections)
    /\ active_connections' = DisconnectAll(active_connections, frames[b].disconnected)
    /\ frames' = [Forget(Range(frames[b].disconnected)) EXCEPT ![b].pc = "returned"]
    /\ UNCHANGED <<users, now, marketing_data, next_id, audit_log, queue, pc, req,
                   resp, check, websockets>>

(************************ specifications ***********************************)
Init ==
    /\ users = InitUsers
    /\ now = 0
    /\ marketing_data = <<>>
    /\ next_id = 1
    /\ audit_log = <<>>
    /\ queue = <<>>
    /\ pc = [w \in Workers |-> "idle"]
    /\ req = [w \in Workers |-> NoReq]
    /\ resp = NoResponse
    /\ WsInit
    /\ check = NoCheck([role |-> DIRETOR, setor |-> None])

\* the write handlers of the marketing pipeline, one request at a time
Next ==
    \/ \E t \in WriteTokens, d \in RawDrafts : BeginCreate(1, t, d)
    \/ CreateInsert(1)
    \/ CreateAudit(1)
    \/ CreateEnqueue(1)
    \/ \E t \in WriteTokens, i \in RecordIds, p \in RawPatches : BeginUpdate(1, t, i, p)
    \/ UpdateCommit(1)
    \/ UpdateAudit(1)
    \/ \E t \in WriteTokens, i \in RecordIds : BeginDelete(1, t, i)
    \/ DeleteCommit(1)
    \/ CommitFails(1)
    \/ SendResponse

Spec == Init /\ [][Next]_vars

\* every marketing endpoint, for every kind of caller, one request at a time
NextGate ==
    \/ \E t \in PipeTokens, d \in GateDrafts : BeginCreate(1, t, d)
    \/ CreateInsert(1)
    \/ CreateAudit(1)
    \/ CreateEnqueue(1)
    \/ \E t \in PipeTokens, i \in RecordIds, p \in GatePatches : BeginUpdate(1, t, i, p)
    \/ UpdateCommit(1)
    \/ UpdateAudit(1)
    \/ \E t \in PipeTokens, i \in RecordIds : BeginDelete(1, t, i)
    \/ DeleteCommit(1)
    \/ \E t \in PipeTokens : ListData(t)
    \/ \E t \in PipeTokens, i \in RecordIds : GetData(t, i)
    \/ \E t \in PipeTokens : GetStats(t)
    \/ CommitFails(1)
    \/ SendResponse

SpecGate == Init /\ [][NextGate]_vars

\* the statistics over a stored table of up to MaxId rows
InitStats ==
    /\ users = InitUsers
    /\ now = 0
    /\ \E n \in 0..MaxId : \E m \in [1..n -> StatsMetrics] :
          /\ marketing_data = [i \in 1..n |-> StatsRow(i, m[i])]
          /\ next_id = n + 1
    /\ audit_log = <<>>
    /\ queue = <<>>
    /\ pc = [w \in Workers |-> "idle"]
    /\ req = [w \in Workers |-> NoReq]
    /\ resp = NoResponse
    /\ WsInit
    /\ check = NoCheck([role |-> DIRETOR, setor |-> None])

NextStats ==
    \/ \E t \in WriteTokens, p \in Periods :
          GetMarketingStats(t, p.data_inicio, p.data_fim)
    \/ SendResponse

SpecStats == InitStats /\ [][NextStats]_vars

\* the write handlers of the marketing pipeline under concurrent requests
NextConc ==
    \/ \E w \in Workers, t \in WriteTokens, d \in Drafts : BeginCreate(w, t, d)
    \/ \E w \in Workers : CreateInsert(w)
    \/ \E w \in Workers : CreateAudit(w)
    \/ \E w \in Workers : CreateEnqueue(w)
    \/ \E w \in Workers, t \in WriteTokens, i \in RecordIds, p \in Patches :
          BeginUpdate(w, t, i, p)
    \/ \E w \in Workers : UpdateCommit(w)
    \/ \E w \in Workers : UpdateAudit(w)
    \/ \E w \in Workers, t \in WriteTokens, i \in RecordIds : BeginDelete(w, t, i)
    \/ \E w \in Workers : DeleteCommit(w)
    \/ \E w \in Workers : CommitFails(w)
    \/ SendResponse

SpecConc == Init /\ [][NextConc]_vars

\* the auth routes, with the clock
NextAuth ==
    \/ \E t \in Tokens : GetCurrentUserInfo(t)
    \/ \E t \in Tokens : VerifyToken(t)
    \/ \E t \in Tokens, i \in UserIds : DeactivateUser(t, i)
    \/ \E e \in Emails \cup {"new@x"}, r \in RoleEnum, s \in {None, Some(S_Marketing)} :
          RegisterUser(e, r, s)
    \/ CreateAdminUser
    \/ \E e \in Emails \cup {"new@x"}, ok \in BOOLEAN : Login(e, ok)
    \/ \E t \in Tokens : Logout(t)
    \/ \E t \in Tokens, p \in PageParams : ListUsers(t, p.limit, p.offset)
    \/ Tick
    \/ SendResponse

SpecAuth == Init /\ [][NextAuth]_vars

\* the access-decision functions on every principal
InitAccess ==
    /\ users = InitUsers
    /\ now = 0
    /\ marketing_data = <<>>
    /\ next_id = 1
    /\ audit_log = <<>>
    /\ queue = <<>>
    /\ pc = [w \in Workers |-> "idle"]
    /\ req = [w \in Workers |-> NoReq]
    /\ resp = NoResponse
    /\ WsInit
    /\ \E r \in StoredRoles, s \in UserSetores : check = NoCheck([role |-> r, setor |-> s])

NextAccess ==
    \/ \E q \in RoleEnum : CallRequireRole(q)
    \/ \E q \in RoleEnum : CallCheckPermission(q)
    \/ \E s \in GateSetores : CallCanAccessSetor(s)
    \/ \E s \in GateSetores : CallServiceCanAccessSetor(s)

SpecAccess == InitAccess /\ [][NextAccess]_vars

\* registrations under concurrent requests
NextReg ==
    \/ \E w \in Workers, b \in RegBodies : BeginRegister(w, b)
    \/ \E w \in Workers : RegisterStore(w)
    \/ SendResponse

SpecReg == Init /\ [][NextReg]_vars

\* WebSocket clients and broadcasts, interleaved at every await
NextWs ==
    \/ \E c \in Sockets : Connect(c)
    \/ \E c \in Sockets : PeerGone(c)
    \/ \E c \in Sockets : EndpointDisconnect(c)
    \/ \E b \in Broadcasts : BroadcastBegin(b)
    \/ \E b \in Broadcasts : BroadcastSend(b)
    \/ \E b \in Broadcasts : BroadcastReturn(b)

SpecWs == Init /\ [][NextWs]_vars

\* tokens issued and verified as the clock advances
InitToken ==
    /\ users = InitUsers
    /\ now = 0
    /\ marketing_data = <<>>
    /\ next_id = 1
    /\ audit_log = <<>>
    /\ queue = <<>>
    /\ pc = [w \in Workers |-> "idle"]
    /\ req = [w \in Workers |-> NoReq]
    /\ resp = NoResponse
    /\ WsInit
    /\ check = NoIssue

NextToken ==
    \/ \E d \in ClaimSets, e \in Lifetimes : CallCreateAccessToken(d, e)
    \/ \E k \in {SECRET_KEY, "other-key"} : CallVerifyToken(k)
    \/ Tick

SpecToken == InitToken /\ [][NextToken]_vars

(************************ properties ***************************************)
\* rank of a role in the hierarchy Employee < Manager < Director; 0 for any
\* other stored value
SpecRank(r) ==
    CASE r = FUNCIONARIO -> 1 [] r = GESTOR -> 2 [] r = DIRETOR -> 3 [] OTHER -> 0

\* two strings are equal up to the case of their letters
SameLetter(a, b) ==
    a = b \/ \E k \in 1..26 : {a, b} = {UpperCase[k], LowerCase[k]}
EqIgnoreCase(a, b) ==
    Len(a) = Len(b) /\ \A i \in 1..Len(a) : SameLetter(a[i], b[i])

\* canAccessSector of the access decision engine
SpecCanAccess(u, sector) ==
    \/ u.role \in {DIRETOR, GESTOR}
    \/ u.role = FUNCIONARIO /\ ~IsNone(u.setor) /\ EqIgnoreCase(Val(u.setor), sector)

\* C1: two create requests with the same natural key never both get their
\* row inserted, also when both ran the duplicate pre-check before either
\* committed: one row is persisted and the other request ends in Conflict.
C1_ConcurrentCreateOnce ==
    \A w1, w2 \in Workers :
        ( /\ w1 # w2
          /\ pc[w1] \in {"create_audit", "create_enqueue"}
          /\ pc[w2] \in {"create_audit", "create_enqueue"} )
        => NaturalKey(req[w1].data) # NaturalKey(req[w2].data)

\* C2: a created or updated row is never committed without its audit entry:
\* every stored row has its CREATE entry, and as many UPDATE entries as
\* updates were applied to it.
C2_MutationWithAudit ==
    \A i \in DOMAIN marketing_data :
        /\ \E k \in 1..Len(audit_log) :
              audit_log[k].acao = "CREATE" /\ audit_log[k].registro_id = i
        /\ marketing_data[i].updated_at =
              Cardinality({k \in 1..Len(audit_log) :
                  audit_log[k].acao = "UPDATE" /\ audit_log[k].registro_id = i})

\* C3: no two stored marketing rows share the natural key
\* (data_ref, canal, campanha), whatever sequence of create, update and delete
\* ran, one request at a time.
C3_UniqueNaturalKey ==
    \A i, j \in DOMAIN marketing_data :
        i # j => NaturalKey(marketing_data[i]) # NaturalKey(marketing_data[j])

\* C4: a role check (require_role, check_permission) grants exactly when
\* rank(stored role) >= rank(required role), and answers a stored role outside
\* the three with a denial, never with a fault.
C4_RoleCheckByRank ==
    check.fn \in {"require_role", "check_permission"} =>
        LET granted == check.status = 200 \/ check.result = "True"
            denied  == check.status = 403 \/ check.result = "False"
        IN /\ granted <=> SpecRank(check.user.role) >= SpecRank(check.required)
           /\ granted \/ denied

C6_EmployeeOwnSector ==
    check.fn = "can_access_setor" =>
        /\ check.user.role = FUNCIONARIO =>
              (check.result = "True" <=>
                  (~IsNone(check.user.setor)
                   /\ EqIgnoreCase(Val(check.user.setor), check.setor)))
        /\ check.user.role \notin RoleEnum => check.result = "False"

C6_Witness ==
    /\ check.fn = "can_access_setor"
    /\ check.user.role = FUNCIONARIO
    /\ check.user.setor = Some(S_MARKETING)
    /\ check.setor = S_Marketing
    /\ check.result = "True"

\* C7: a marketing request (create, list, get, update, delete, stats) of an
\* authenticated principal who cannot access the sector Marketing ends in 403
\* and leaves the rows, the audit log and the job queue as they were.
\* (each disjunct first looks at what the step left behind, so that a step
\* is matched against the one endpoint it can belong to)
MarketingRequest(t) ==
    \/ /\ resp'.op = "create" \/ pc'[1] = "create_insert"
       /\ \E d \in GateDrafts : BeginCreate(1, t, d)
    \/ /\ resp'.op = "update" \/ pc'[1] = "update_commit"
       /\ \E i \in RecordIds, p \in GatePatches : BeginUpdate(1, t, i, p)
    \/ /\ resp'.op = "delete" \/ pc'[1] = "delete_commit"
       /\ \E i \in RecordIds : BeginDelete(1, t, i)
    \/ resp'.op = "list" /\ ListData(t)
    \/ resp'.op = "get" /\ \E i \in RecordIds : GetData(t, i)
    \/ resp'.op = "stats" /\ GetStats(t)

DeniedPrincipal(t) ==
    /\ get_current_user(t).status = 200
    /\ ~SpecCanAccess(users[get_current_user(t).user], S_Marketing)

C7_DeniedIsForbidden ==
    [][\A t \in PipeTokens :
          (Ready /\ DeniedPrincipal(t) /\ MarketingRequest(t)) =>
              /\ resp'.status = 403
              /\ UNCHANGED <<marketing_data, next_id, audit_log, queue, pc>>]_vars

C7_Witness ==
    /\ resp.op = "update"
    /\ resp.status = 403
    /\ DOMAIN marketing_data # {}
    /\ Len(audit_log) > 0

\* C8: GET /auth/me resolves the token to a principal exactly when the token
\* verifies (well formed, signed with the key, not expired), has a subject,
\* the subject is the email of a stored principal and that principal is
\* active; otherwise the answer is 401; nothing stored changes.
ResolveCond(t) ==
    /\ t.wellformed
    /\ t.key = SECRET_KEY
    /\ now <= t.exp
    /\ ~IsNone(t.sub)
    /\ \E i \in DOMAIN users : users[i].email = Val(t.sub) /\ users[i].ativo

C8_Resolve ==
    [][(resp.op = "none" /\ resp'.op = "me") =>
          /\ resp'.status \in {200, 401}
          /\ resp'.status = 200 <=> ResolveCond(resp'.token)
          /\ resp'.status = 200 =>
                /\ resp'.user \in DOMAIN users
                /\ users[resp'.user].email = Val(resp'.token.sub)
          /\ UNCHANGED <<users, marketing_data, next_id, audit_log, queue>>]_vars

C8_Witness ==
    /\ resp.op = "me"
    /\ resp.status = 200
    /\ resp.user = 3
    /\ now > 0

\* C9: once deactivate has succeeded, the target's ativo flag is false and no
\* token whose subject is the target resolves any more.
C9_DeactivatedIsOut ==
    [][(resp.op = "none" /\ resp'.op = "deactivate" /\ resp'.status = 200) =>
          /\ ~users'[resp'.target].ativo
          /\ \A t \in Tokens :
                t.sub = Some(users'[resp'.target].email)
                    => (get_current_user(t).status = 401)']_vars

\* C10 (as stated): deactivating oneself fails with the own-user error for a
\* requester of each of the three roles, and changes no principal.
SelfDeactivation == "desativar o proprio usuario"

C10_SelfAlwaysOwnUserError ==
    [][( /\ resp.op = "none" /\ resp'.op = "deactivate"
         /\ resp'.user # 0 /\ resp'.target = resp'.user
         /\ users[resp'.user].role \in RoleEnum ) =>
          /\ resp'.detail = SelfDeactivation
          /\ users' = users]_vars

\* C10 (amended): deactivating oneself always fails and changes no
\* principal: with the own-user error for a Diretor, with 403 (the
\* Diretor-only check comes first) for a Funcionario or a Gestor.
C10_SelfNeverDeactivates ==
    [][( /\ resp.op = "none" /\ resp'.op = "deactivate"
         /\ resp'.user # 0 /\ resp'.target = resp'.user
         /\ users[resp'.user].role \in RoleEnum ) =>
          /\ users' = users
          /\ users[resp'.user].role = DIRETOR =>
                (resp'.status = 400 /\ resp'.detail = SelfDeactivation)
          /\ users[resp'.user].role \in {FUNCIONARIO, GESTOR} =>
                (resp'.status = 403 /\ resp'.detail = "Apenas diretores")]_vars

C10_Witness ==
    /\ resp.op = "deactivate"
    /\ resp.user = 1
    /\ resp.target = 1
    /\ resp.detail = SelfDeactivation

\* C11 (as stated): verify_token on a token past its expiry gives its caller a
\* failure that differs from the failure it gives for a badly signed token and
\* for a malformed token.
ExpiredOnly(t, time) == t.wellformed /\ t.key = SECRET_KEY /\ time > t.exp
VerifyOutcome(t, time) == IF IsNone(verify_token(t, time)) THEN "None" ELSE "payload"

C12_UpdateEnqueues ==
    [][\A w \in Workers :
          ( /\ pc[w] # "idle" /\ pc'[w] = "idle"
            /\ resp'.op = "update" /\ resp'.status = 200 )
          => (pc[w] \in EnqueueSteps /\ req[w].id = resp'.target)]_vars

\* C13: the step of create that attempts the enqueue answers 201 whether the
\* enqueue succeeded or failed, leaves the rows and the audit log as they
\* were, and the new row and its CREATE entry are stored.
C13_EnqueueFailureSwallowed ==
    [][\A w \in Workers :
          (pc[w] = "create_enqueue" /\ pc'[w] # pc[w]) =>
              /\ resp'.op = "create" /\ resp'.status = 201
              /\ UNCHANGED <<marketing_data, audit_log>>
              /\ req[w].id \in DOMAIN marketing_data'
              /\ \E k \in 1..Len(audit_log') :
                    /\ audit_log'[k].acao = "CREATE"
                    /\ audit_log'[k].registro_id = req[w].id]_vars

C13_Witness ==
    /\ resp.op = "create"
    /\ resp.status = 201
    /\ queue = <<>>
    /\ resp.target \in DOMAIN marketing_data
    /\ Len(audit_log) = 1

\* C14: the audit log is append-only; a successful create, update or delete
\* has exactly one entry, with its action, the acting principal (the one the
\* request's token resolves to) and the record id; and no entry is written
\* for a write that does not succeed.
EntriesFor(log, acao, id) ==
    {k \in 1..Len(log) : log[k].acao = acao /\ log[k].registro_id = id
                          /\ log[k].tabela = "marketing_data"}
AcaoOf(op) == CASE op = "create" -> "CREATE" [] op = "update" -> "UPDATE"
                [] op = "delete" -> "DELETE"
TokenUser(t) == CHOOSE i \in DOMAIN users : Some(users[i].email) = t.sub

C14_AuditExactlyOnce ==
    [][/\ \/ audit_log' = audit_log
          \/ /\ Len(audit_log') = Len(audit_log) + 1
             /\ SubSeq(audit_log', 1, Len(audit_log)) = audit_log
       /\ \A t \in PipeTokens :
             ( /\ pc[1] = "idle" /\ pc'[1] # "idle"
               /\ \/ \E d \in GateDrafts : BeginCreate(1, t, d)
                  \/ \E i \in RecordIds, p \in GatePatches : BeginUpdate(1, t, i, p)
                  \/ \E i \in RecordIds : BeginDelete(1, t, i) )
             => req'[1].user = TokenUser(t)
       /\ (pc[1] # "idle" /\ pc'[1] = "idle" /\ resp'.status \in {200, 201}) =>
             LET own == EntriesFor(audit_log', AcaoOf(resp'.op), resp'.target)
                 was == EntriesFor(audit_log, AcaoOf(resp'.op), resp'.target)
             IN /\ resp'.user = req[1].user
                /\ \A k \in own : audit_log'[k].user_id = resp'.user \/ k \in was
                /\ resp'.op = "create" => Cardinality(own) = 1 /\ UNCHANGED audit_log
                /\ resp'.op = "update" =>
                      /\ Cardinality(own) = Cardinality(was) + 1
                      /\ Len(audit_log') = Len(audit_log) + 1
                /\ resp'.op = "delete" =>
                      /\ Cardinality(own) = 1
                      /\ Len(audit_log') = Len(audit_log) + 1
       /\ audit_log' # audit_log =>
             \/ pc'[1] = "create_enqueue"
             \/ pc'[1] = "idle" /\ resp'.status = 200]_vars

\* a Diretor has updated a row that the Funcionario of the sector created
C14_Witness ==
    /\ resp.op = "update"
    /\ resp.status = 200
    /\ resp.user = 1
    /\ \E k \in 1..Len(audit_log) :
          /\ audit_log[k].acao = "CREATE"
          /\ audit_log[k].registro_id = resp.target
          /\ audit_log[k].user_id = 3
    /\ audit_log[Len(audit_log)].acao = "UPDATE"
    /\ audit_log[Len(audit_log)].user_id = 1

\* C15 (as stated): the commit of an update leaves every column of the row
\* that the patch does not carry as it was (owner, natural key and updated_at
\* included) and every other row as it was, and the update adds exactly one
\* UPDATE entry.
Absent(patch, c) == c \notin PatchFields \/ IsNone(patch[c])
UpdateCommits == pc[1] = "update_commit" /\ pc'[1] = "update_audit"
UpdateEnds == pc[1] \in {"update_commit", "update_audit"} /\ pc'[1] = "idle"
OneUpdateEntry ==
    /\ Len(audit_log') = Len(audit_log) + 1
    /\ audit_log'[Len(audit_log')].acao = "UPDATE"
    /\ audit_log'[Len(audit_log')].registro_id = req[1].id
    /\ SubSeq(audit_log', 1, Len(audit_log)) = audit_log

DeletedId(i) == EntriesFor(audit_log, "DELETE", i) # {}

C16_DeleteThenNotFound ==
    [][/\ (pc[1] = "delete_commit" /\ pc'[1] = "idle" /\ resp'.status = 200) =>
             /\ req[1].id \in DOMAIN marketing_data
             /\ DOMAIN marketing_data' = DOMAIN marketing_data \ {req[1].id}
             /\ \A i \in DOMAIN marketing_data' : marketing_data'[i] = marketing_data[i]
             /\ audit_log' = Append(audit_log, audit_log'[Len(audit_log')])
             /\ audit_log'[Len(audit_log')].acao = "DELETE"
             /\ audit_log'[Len(audit_log')].registro_id = req[1].id
             /\ ~IsNone(audit_log'[Len(audit_log')].dados_antes)
             /\ EntriesFor(audit_log, "DELETE", req[1].id) = {}
       /\ \A i \in RecordIds : DeletedId(i) => i \notin DOMAIN marketing_data'
       /\ ( /\ Ready /\ pc[1] = "idle"
            /\ \/ resp'.op \in {"get", "update", "delete"}
               \/ pc'[1] \in {"update_commit", "delete_commit"} ) =>
             \A i \in {j \in RecordIds : DeletedId(j)}, t \in PipeTokens :
                 ( /\ MarketingDeps(t).status = 200
                   /\ \/ resp'.op = "get" /\ GetData(t, i)
                      \/ /\ resp'.op = "update" \/ pc'[1] = "update_commit"
                         /\ \E p \in GatePatches : BeginUpdate(1, t, i, p)
                      \/ /\ resp'.op = "delete" \/ pc'[1] = "delete_commit"
                         /\ BeginDelete(1, t, i) )
                 => /\ resp'.status = 404
                    /\ UNCHANGED <<marketing_data, next_id, audit_log, queue, pc>>]_vars

C16_Witness ==
    /\ resp.op = "get"
    /\ resp.status = 404
    /\ resp.target = 1
    /\ DeletedId(1)
    /\ next_id > 2

\* C17: a create whose natural key is already stored answers 409, an update
\* or delete of an id that is not stored answers 404 (the caller passing the
\* gate, one request at a time), and in each case the rows, the id sequence,
\* the audit log and the job queue stay as they were and no write is started.
KeyStored(d) ==
    \E j \in DOMAIN marketing_data : NaturalKey(marketing_data[j]) = NaturalKey(d)

C17_FailedWriteChangesNothing ==
    [][( /\ Ready /\ pc[1] = "idle"
         /\ resp'.op \in {"create", "update", "delete"} \/ pc'[1] # "idle" ) =>
          \A t \in {u \in WriteTokens : MarketingDeps(u).status = 200} :
              /\ \A d \in {e \in Drafts : KeyStored(e)} :
                    ( /\ resp'.op = "create" \/ pc'[1] = "create_insert"
                      /\ BeginCreate(1, t, d) ) =>
                        /\ resp'.status = 409
                        /\ UNCHANGED <<marketing_data, next_id, audit_log, queue, pc>>
              /\ \A i \in RecordIds \ DOMAIN marketing_data :
                    /\ ( /\ resp'.op = "update" \/ pc'[1] = "update_commit"
                         /\ \E p \in Patches : BeginUpdate(1, t, i, p) ) =>
                          /\ resp'.status = 404
                          /\ UNCHANGED <<marketing_data, next_id, audit_log, queue, pc>>
                    /\ ( /\ resp'.op = "delete" \/ pc'[1] = "delete_commit"
                         /\ BeginDelete(1, t, i) ) =>
                          /\ resp'.status = 404
                          /\ UNCHANGED <<marketing_data, next_id, audit_log, queue, pc>>]_vars

C17_Witness ==
    /\ resp.op = "create"
    /\ resp.status = 409
    /\ Cardinality(DOMAIN marketing_data) = 1
    /\ Len(audit_log) = 1
    /\ Len(queue) = 1

\* C18: no step removes a row of users, and no step sets ativo of a row from
\* false to true.
C18_PrincipalsPersist ==
    [][\A i \in DOMAIN users :
          /\ i \in DOMAIN users'
          /\ ~users[i].ativo => ~users'[i].ativo]_vars

\* the Diretor has deactivated a principal that was inactive already
C18_Witness ==
    /\ resp.op = "deactivate"
    /\ resp.status = 200
    /\ resp.target = 6
    /\ 6 \in DOMAIN users
    /\ ~users[6].ativo

\* C19: a token that resolves to a principal keeps resolving to that
\* principal across every step taken while the token is not expired, unless
\* the step is a successful deactivate of that principal: a logout with the
\* token, in particular, leaves it valid.
C19_OnlyExpiryInvalidates ==
    [][\A t \in Tokens :
          ( /\ get_current_user(t).status = 200
            /\ now' <= t.exp
            /\ ~( /\ resp'.op = "deactivate" /\ resp'.status = 200
                  /\ resp'.target = get_current_user(t).user ) )
          => (get_current_user(t))' = get_current_user(t)]_vars

\* a logout has been answered and its token still resolves
C19_Witness ==
    /\ resp.op = "logout"
    /\ resp.status = 200
    /\ resp.user = 3
    /\ now = 1
    /\ get_current_user(resp.token) = [status |-> 200, user |-> 3]

\* C20: a listing asked by a Funcionario is answered 403; a listing asked by
\* a Diretor with the default limit and offset is answered 200 with every
\* user; one asked by a Gestor is answered 200 with exactly the users whose
\* setor equals the Gestor's.
C20_ListPrincipals ==
    (resp.op = "users" /\ resp.status \in {200, 403, 500}
        /\ resp.limit = 50 /\ resp.offset = 0) =>
        LET user == users[get_current_user(resp.token).user]
        IN /\ user.role = FUNCIONARIO => resp.status = 403
           /\ user.role = DIRETOR =>
                 resp.status = 200 /\ resp.items = DOMAIN users
           /\ user.role = GESTOR =>
                 /\ resp.status = 200
                 /\ resp.items = {i \in DOMAIN users : users[i].setor = user.setor}

\* the users of a set at positions offset .. offset+limit-1 in creation
\* (id) order
SliceByCreation(visible, limit, offset) ==
    {i \in visible :
        LET pos == Cardinality({j \in visible : j < i})
        IN pos >= offset /\ pos < offset + limit}

\* C21: a listing asked by a Gestor or a Diretor is answered 200 with the
\* visible users at positions offset .. offset+limit-1 in creation order (a
\* page of one user shows who is at each position) and with a total equal to
\* the number of visible users, whatever limit and offset are.
C21_ListPage ==
    (resp.op = "users" /\ resp.status \in {200, 403, 500}) =>
        LET user    == users[get_current_user(resp.token).user]
            visible == IF user.role = DIRETOR THEN DOMAIN users
                       ELSE {i \in DOMAIN users : users[i].setor = user.setor}
        IN user.role \in {GESTOR, DIRETOR} =>
              /\ resp.status = 200
              /\ resp.items = SliceByCreation(visible, resp.limit, resp.offset)
              /\ resp.total = Cardinality(visible)

\* the sum of a column over the rows of the period of a statistics response
PeriodSum(col) == OrZero(SqlSum(StatsQuery(resp.data_inicio, resp.data_fim), col))
CanalSum(c, col) ==
    OrZero(SqlSum({i \in StatsQuery(resp.data_inicio, resp.data_fim) :
                      marketing_data[i].canal = c}, col))

\* C22: a statistics request that passes the gate is answered 200 whatever
\* rows the period selects (none included), and every ratio whose
\* denominator sums to 0 is reported as 0: cpl and conversion rate for no
\* leads, roi for no investment, ctr for no impressions, average ticket for
\* no sales, and a canal's roi for no investment in the canal.
C22_NoDivisionFault ==
    (resp.op = "stats" /\ resp.status \notin {401, 403}) =>
        /\ resp.status = 200
        /\ PeriodSum("leads") = 0 =>
              /\ resp.body.metricas.cpl.value = 0
              /\ resp.body.metricas.taxa_conversao_percentual.value = 0
        /\ PeriodSum("investimento") = 0 => resp.body.metricas.roi_percentual.value = 0
        /\ PeriodSum("impressoes") = 0 => resp.body.metricas.ctr_percentual.value = 0
        /\ PeriodSum("vendas") = 0 => resp.body.metricas.ticket_medio.value = 0
        /\ \A c \in DOMAIN resp.body.por_canal :
              CanalSum(c, "investimento") = 0 => resp.body.por_canal[c].value = 0

\* statistics over a period with rows, investment and sales but no lead
C22_Witness ==
    /\ resp.op = "stats"
    /\ resp.status = 200
    /\ resp.body.registros = 2
    /\ PeriodSum("leads") = 0
    /\ PeriodSum("investimento") = 100
    /\ resp.body.metricas.cpl.value = 0
    /\ resp.body.metricas.roi_percentual.value = 50000
    /\ resp.body.metricas.ticket_medio.value = 60000
    /\ \E c \in DOMAIN resp.body.por_canal :
          CanalSum(c, "investimento") = 0 /\ resp.body.por_canal[c].value = 0

\* C23: the metric of every stored row is non-negative in every reachable
\* state, and a create or update whose body carries a negative metric is
\* answered with a rejection (422 for a caller who passes the gate) before
\* any persistence step: rows, audit log, queue and handler positions stay
\* as they were.
C23_MetricsNonNegative ==
    /\ [](\A i \in DOMAIN marketing_data : marketing_data[i].investimento >= 0)
    /\ [][( /\ Ready /\ pc[1] = "idle"
            /\ resp'.op \in {"create", "update"} \/ pc'[1] # "idle" ) =>
             \A t \in WriteTokens :
                 /\ \A d \in {e \in RawDrafts : e.investimento < 0} :
                       ( /\ resp'.op = "create" \/ pc'[1] = "create_insert"
                         /\ BeginCreate(1, t, d) ) =>
                          /\ resp'.status \in {403, 422}
                          /\ MarketingDeps(t).status = 200 => resp'.status = 422
                          /\ UNCHANGED <<marketing_data, next_id, audit_log, queue, pc>>
                 /\ \A i \in RecordIds :
                       \A p \in {q \in RawPatches : ~IsNone(q.investimento)
                                                    /\ Val(q.investimento) < 0} :
                          ( /\ resp'.op = "update" \/ pc'[1] = "update_commit"
                            /\ BeginUpdate(1, t, i, p) ) =>
                             /\ resp'.status \in {403, 422}
                             /\ MarketingDeps(t).status = 200 => resp'.status = 422
                             /\ UNCHANGED <<marketing_data, next_id, audit_log, queue, pc>>]_vars

\* an update with a negative metric has been rejected, the row stored before
\* it still holding its metric
C23_Witness ==
    /\ resp.op = "update"
    /\ resp.status = 422
    /\ 1 \in DOMAIN marketing_data
    /\ marketing_data[1].investimento = 100
    /\ Len(audit_log) = 1

\* C24: a token issued for claims with a subject and a lifetime ttl (30
\* minutes when none is given) verifies to claims with that subject at every
\* time before issue time + ttl and verifies to nothing at every time after
\* it; a token signed with another key, or without a subject, verifies to
\* nothing.
C24_TokenRoundTrip ==
    check.fn = "verify_token" =>
        LET ttl      == IF IsNone(check.expires_delta) THEN 30
                        ELSE Val(check.expires_delta)
            deadline == check.issued + (ttl \div TickMinutes)
        IN /\ ( /\ ~IsNone(check.data.sub) /\ check.token.key = SECRET_KEY
                /\ check.at < deadline ) =>
                   ~IsNone(check.result) /\ Val(check.result).sub = check.data.sub
           /\ check.at > deadline => IsNone(check.result)
           /\ check.token.key # SECRET_KEY => IsNone(check.result)
           /\ IsNone(check.data.sub) => IsNone(check.result)

\* the rows of a users table with an email
WithEmail(table, email) == {i \in DOMAIN table : table[i].email = email}

\* C25: whenever a registration that passed the pre-check reaches its
\* INSERT, one row with its email is stored afterwards: the request succeeds
\* and adds that row when no row had the email, and fails leaving the table
\* as it was when another request stored the email meanwhile.
C25_UniqueEmailUnderRace ==
    [][\A w \in Workers :
          (pc[w] = "register_store" /\ pc'[w] = "idle") =>
             /\ Cardinality(WithEmail(users', req[w].email)) = 1
             /\ WithEmail(users, req[w].email) = {} => resp'.status = 200
             /\ WithEmail(users, req[w].email) # {} =>
                   resp'.status # 200 /\ users' = users]_vars

C27_UpdateKeepsKey ==
    [][UpdateCommits =>
          NaturalKey(marketing_data'[req[1].id]) = NaturalKey(marketing_data[req[1].id])]_vars

\* C28: a registration of an email no row has succeeds and adds exactly one
\* row, active, with that email, role and sector; a login with the email of
\* a stored active user and the right password succeeds with a token whose
\* subject is the email and which resolves to that user, and a login with a
\* wrong password issues no token.
C28_RegisterLoginRoundTrip ==
    [][(Ready /\ resp'.op \in {"register", "login"}) =>
          /\ \A e \in {"new@x"}, r \in RoleEnum, s \in {None, Some(S_Marketing)} :
                (WithEmail(users, e) = {} /\ RegisterUser(e, r, s)) =>
                   /\ resp'.status = 200
                   /\ \E i \in DOMAIN users' \ DOMAIN users :
                         /\ users' = users @@ (i :> users'[i])
                         /\ users'[i] = UserRow(e, r, s, TRUE)
          /\ \A e \in {users[i].email : i \in {j \in DOMAIN users : users[j].ativo}} :
                /\ Login(e, TRUE) =>
                      /\ resp'.status = 200
                      /\ resp'.token.sub = Some(e)
                      /\ get_current_user(resp'.token).status = 200
                      /\ get_current_user(resp'.token).user \in WithEmail(users, e)
                /\ Login(e, FALSE) =>
                      resp'.status # 200 /\ resp'.token = NoToken]_vars

\* C29: for a principal of every role and every own sector (none included)
\* and every sector asked, what check-permissions reports through
\* AuthService.can_access_setor is the decision the sector gate takes through
\* auth.can_access_setor, and no exception escapes.
C29_ReportedIsEnforced ==
    (check.fn = "AuthService.can_access_setor" /\ check.user.role \in RoleEnum) =>
        check.result = IF can_access_setor(check.user, check.setor)
                       THEN "True" ELSE "False"

\* how often a connection occurs in a list
Occurrences(list, c) == Cardinality({i \in DOMAIN list : list[i] = c})

\* C30: when a broadcast returns, active_connections holds no connection
\* whose send failed during it and no connection twice, and every connection
\* that was registered from the begin of the broadcast to its return and
\* whose send works was sent the message exactly once.
C30_BroadcastFanOut ==
    [][\A b \in Broadcasts :
          (frames[b].pc = "loop" /\ frames'[b].pc = "returned") =>
             /\ Range(active_connections') \cap Range(frames'[b].disconnected) = {}
             /\ \A c \in Sockets : Occurrences(active_connections', c) <= 1
             /\ \A c \in frames'[b].whole :
                   websockets'[c] = "open" => Occurrences(frames'[b].sent, c) = 1]_vars

====
